---- MODULE Spec2Model ----
(***************************************************************************)
(* The on-screen FPS overlay of bevy_screen_diags (src/src/lib.rs): the    *)
(* startup system `setup`, the per-frame system `update`, the helpers      *)
(* `extract_fps`, `format_fps` and `spawn_text`, and the two collaborators *)
(* of the plugin: the code that pauses/unpauses the Timer and the frame    *)
(* time diagnostics.                                                       *)
(*                                                                         *)
(* Time is counted in units of 100 ms.  FPS values are fixed-point numbers *)
(* in tenths (596 is 59.6).  Text is modelled by strings.                  *)
(***************************************************************************)
EXTENDS Integers, Sequences, FiniteSets, TLC

VARIABLES
    stage,        \* position of the host schedule: "startup", "commands", "update"
    timer_query,  \* the entities matching Query<(&mut ScreenDiagsTimer, &mut Timer)>
    text_query,   \* the entities matching Query<&mut Text, With<ScreenDiagsText>>
    commands,     \* the deferred Commands queue, applied by the host after a system
    next_entity,  \* the next entity handle the world reserves
    diagnostics,  \* what Diagnostics holds for FrameTimeDiagnosticsPlugin::FPS
    time,         \* Res<Time>: the delta of the current frame
    panicked,     \* a system has panicked (single_mut() on a non-singleton query)
    transition,   \* history: the match arm the last run of update took (0: none yet)
    since_write,  \* history: ticks since the value text was last overwritten (capped)
    writes,       \* history: how often the value text was overwritten (capped at 2)
    despawned     \* history: the handles a despawn command was issued for

vars == <<stage, timer_query, text_query, commands, next_entity, diagnostics,
          time, panicked, transition, since_write, writes, despawned>>

-----------------------------------------------------------------------------
(* Bounds of the model *)

\* handles 1..MaxEntity can be reserved
MaxEntity == 5

\* the largest average (in tenths) the formatting is checked for
MaxFpsTenths == 1005

(* Program constants *)

\* const UPDATE_INTERVAL: Duration = Duration::from_secs(1), in units of 100 ms
UPDATE_INTERVAL == 10

\* the frame deltas (units of 100 ms) a tick can deliver
Deltas == {0, 1, 3, 10, 25}

\* the rolling averages (tenths of a frame per second) the diagnostics can hold
FpsValues == {25, 596, 627}

\* Option<T>
None == << >>
Some(x) == << x >>
unwrap(o) == o[1]

\* Diagnostics::get(FPS): None, or Some Diagnostic whose average() is None (no
\* measurement yet) or Some(v)
DiagnosticStates ==
    {None} \cup {Some([average |-> a]) : a \in {None} \cup {Some(v) : v \in FpsValues}}

-----------------------------------------------------------------------------
(* Pure helpers *)

Digit(d) ==
    CASE d = 0 -> "0" [] d = 1 -> "1" [] d = 2 -> "2" [] d = 3 -> "3"
      [] d = 4 -> "4" [] d = 5 -> "5" [] d = 6 -> "6" [] d = 7 -> "7"
      [] d = 8 -> "8" [] d = 9 -> "9"

\* the decimal numeral of a natural number
RECURSIVE Decimal(_)
Decimal(n) == IF n < 10 THEN Digit(n) ELSE Decimal(n \div 10) \o Digit(n % 10)

\* mutant of format_fps: the fraction is cut off (as a cast to an integer does)
format_fps_truncated(fps) == Decimal(fps \div 10)

\* format!("{:.0}", fps) of a non-negative fps given in tenths: zero decimal
\* places, ties rounded to the even integer (Rust's float formatting is exact)
format_fps(fps) ==
    LET q == fps \div 10
        r == fps % 10
        n == IF r < 5 THEN q
             ELSE IF r > 5 THEN q + 1
             ELSE IF q % 2 = 0 THEN q ELSE q + 1
    IN  Decimal(n)

\* diagnostics.get(FPS).map(|fps| fps.average().unwrap_or_default()):
\* None without the diagnostic, 0.0 for a diagnostic without measurements
extract_fps(d) ==
    IF d = None THEN None
    ELSE IF unwrap(d).average = None THEN Some(0)
    ELSE Some(unwrap(unwrap(d).average))

\* the Text of spawn_text: sections[0] the label, sections[1] the value
spawn_text_sections(fps) ==
    << "FPS: ", IF fps = None THEN "..." ELSE unwrap(fps) >>

\* Timer::new(duration, true): a repeating timer, unpaused, nothing elapsed
TimerNew == [elapsed |-> 0, paused |-> FALSE, times_finished |-> 0]

\* mutant of TimerTick: the timer does not repeat, it finishes once
TimerTick_once(t, delta) ==
    IF t.paused THEN t
    ELSE IF t.elapsed >= UPDATE_INTERVAL THEN [t EXCEPT !.times_finished = 0]
    ELSE LET e == t.elapsed + delta IN
         IF e >= UPDATE_INTERVAL
         THEN [t EXCEPT !.elapsed = UPDATE_INTERVAL, !.times_finished = 1]
         ELSE [t EXCEPT !.elapsed = e, !.times_finished = 0]

\* mutant of TimerTick: a finished timer is not wound back by its duration
TimerTick_not_rewound(t, delta) ==
    IF t.paused THEN t
    ELSE LET e == t.elapsed + delta IN
         IF e >= UPDATE_INTERVAL
         THEN [t EXCEPT !.elapsed = UPDATE_INTERVAL,
                        !.times_finished = e \div UPDATE_INTERVAL]
         ELSE [t EXCEPT !.elapsed = e, !.times_finished = 0]

\* Timer::tick(delta) of a repeating timer of duration UPDATE_INTERVAL
TimerTick(t, delta) ==
    IF t.paused THEN t
    ELSE LET e == t.elapsed + delta IN
         IF e >= UPDATE_INTERVAL
         THEN [t EXCEPT !.elapsed = e % UPDATE_INTERVAL,
                        !.times_finished = e \div UPDATE_INTERVAL]
         ELSE [t EXCEPT !.elapsed = e, !.times_finished = 0]

\* Timer::just_finished()
just_finished(t) == t.times_finished > 0

-----------------------------------------------------------------------------
(* State access *)

marker == timer_query[1].marker
timer  == timer_query[1].timer

\* the live elements tagged ScreenDiagsText
Elements == DOMAIN text_query

\* the number of 100 ms ticks that make up UPDATE_INTERVAL
WindowTicks == UPDATE_INTERVAL

Bump(n) == IF n < WindowTicks THEN n + 1 ELSE n

-----------------------------------------------------------------------------
(* The program *)

\* App with ScreenDiagsPlugin built: the FPS diagnostic is registered and has
\* no measurement, the world holds nothing of the plugin, setup has not run.
Init ==
    /\ stage = "startup"
    /\ timer_query = << >>
    /\ text_query = << >>
    /\ commands = << >>
    /\ next_entity = 1
    /\ diagnostics = Some([average |-> None])
    /\ time = [delta |-> 0]
    /\ panicked = FALSE
    /\ transition = 0
    /\ since_write = WindowTicks
    /\ writes = 0
    /\ despawned = {}

\* mutant of Setup: the first element is spawned with the sampled metric
Setup_samples_metric ==
    /\ stage = "startup"
    /\ ~panicked
    /\ LET entity == next_entity
           fps == extract_fps(diagnostics)
       IN
       commands' = << [op |-> "spawn_text", entity |-> entity,
                       sections |-> spawn_text_sections(
                          IF fps = None THEN None
                          ELSE Some(format_fps(unwrap(fps))))],
                      [op |-> "spawn_timer", entity |-> entity + 1,
                       marker |-> [text_entity |-> Some(entity)],
                       timer |-> TimerNew] >>
    /\ next_entity' = next_entity + 2
    /\ stage' = "commands"
    /\ UNCHANGED <<timer_query, text_query, diagnostics, time, panicked,
                   transition, since_write, writes, despawned>>

\* fn setup: spawn the text with no value, then the (ScreenDiagsTimer, Timer)
\* bundle referring to it; both through Commands.
Setup ==
    /\ stage = "startup"
    /\ ~panicked
    /\ LET entity == next_entity IN
       commands' = << [op |-> "spawn_text", entity |-> entity,
                       sections |-> spawn_text_sections(None)],
                      [op |-> "spawn_timer", entity |-> entity + 1,
                       marker |-> [text_entity |-> Some(entity)],
                       timer |-> TimerNew] >>
    /\ next_entity' = next_entity + 2
    /\ stage' = "commands"
    /\ UNCHANGED <<timer_query, text_query, diagnostics, time, panicked,
                   transition, since_write, writes, despawned>>

\* the world after one command
ApplyText(tq, c) ==
    IF c.op = "spawn_text"
    THEN [e \in DOMAIN tq \cup {c.entity} |->
            IF e = c.entity THEN [sections |-> c.sections] ELSE tq[e]]
    ELSE IF c.op = "despawn"
    THEN [e \in DOMAIN tq \ {c.entity} |-> tq[e]]
    ELSE tq

ApplyTimer(q, c) ==
    IF c.op = "spawn_timer"
    THEN Append(q, [marker |-> c.marker, timer |-> c.timer])
    ELSE q

RECURSIVE ApplyAllText(_, _)
ApplyAllText(tq, cs) ==
    IF cs = << >> THEN tq ELSE ApplyAllText(ApplyText(tq, Head(cs)), Tail(cs))

RECURSIVE ApplyAllTimer(_, _)
ApplyAllTimer(q, cs) ==
    IF cs = << >> THEN q ELSE ApplyAllTimer(ApplyTimer(q, Head(cs)), Tail(cs))

\* the host ends the stage of the system that just ran: it applies the
\* deferred commands, and the next frame starts with frame delta `delta`
ApplyCommands(delta) ==
    /\ stage = "commands"
    /\ ~panicked
    /\ text_query' = ApplyAllText(text_query, commands)
    /\ timer_query' = ApplyAllTimer(timer_query, commands)
    /\ commands' = << >>
    /\ time' = [delta |-> delta]
    /\ stage' = "update"
    /\ UNCHANGED <<next_entity, diagnostics, panicked, transition, since_write, writes,
                   despawned>>

\* mutant of match_arm: the despawn arm has lost its guard
match_arm_despawn_unguarded(m, t, delta) ==
    IF m.text_entity = None /\ t.paused THEN 1
    ELSE IF m.text_entity = None THEN 2
    ELSE 3

\* mutant of match_arm: the timer arm is tried before the despawn arm
match_arm_tick_before_pause(m, t, delta) ==
    IF m.text_entity = None /\ t.paused THEN 1
    ELSE IF m.text_entity = None THEN 2
    ELSE IF ~just_finished(TimerTick(t, delta)) THEN 4
    ELSE IF t.paused THEN 3
    ELSE 5

\* mutant of match_arm: the spawn arm matches any unpaused tick
match_arm_spawn_when_unpaused(m, t, delta) ==
    IF m.text_entity = None /\ t.paused THEN 1
    ELSE IF ~t.paused THEN 2
    ELSE 3

\* mutant of match_arm: the guard of the timer arm is not negated
match_arm_guard_inverted(m, t, delta) ==
    IF m.text_entity = None /\ t.paused THEN 1
    ELSE IF m.text_entity = None THEN 2
    ELSE IF t.paused THEN 3
    ELSE IF just_finished(TimerTick(t, delta)) THEN 4
    ELSE 5

\* the arm of `match marker.text_entity` in update that runs: the first whose
\* pattern and guard hold
match_arm(m, t, delta) ==
    IF m.text_entity = None /\ t.paused THEN 1
    ELSE IF m.text_entity = None THEN 2
    ELSE IF t.paused THEN 3
    ELSE IF ~just_finished(TimerTick(t, delta)) THEN 4
    ELSE 5

\* None if timer.paused() => {}
Arm1 ==
    /\ since_write' = Bump(since_write)
    /\ UNCHANGED writes
    /\ UNCHANGED <<timer_query, text_query, commands, next_entity, panicked,
                   despawned>>

\* mutant of Arm2: the respawn also resets the timer
Arm2_resets_timer ==
    /\ next_entity <= MaxEntity
    /\ LET fps == extract_fps(diagnostics)
           entity == next_entity
       IN  /\ commands' = << [op |-> "spawn_text", entity |-> entity,
                             sections |-> spawn_text_sections(
                                IF fps = None THEN None
                                ELSE Some(format_fps(unwrap(fps))))] >>
           /\ timer_query' =
                [timer_query EXCEPT ![1].marker.text_entity = Some(entity),
                                    ![1].timer.elapsed = 0,
                                    ![1].timer.times_finished = 0]
    /\ next_entity' = next_entity + 1
    /\ since_write' = Bump(since_write)
    /\ UNCHANGED writes
    /\ UNCHANGED <<text_query, panicked, despawned>>

\* mutant of Arm2: the handle of the spawned element is not recorded
Arm2_reference_not_recorded ==
    /\ next_entity <= MaxEntity
    /\ LET fps == extract_fps(diagnostics)
           entity == next_entity
       IN  commands' = << [op |-> "spawn_text", entity |-> entity,
                           sections |-> spawn_text_sections(
                              IF fps = None THEN None
                              ELSE Some(format_fps(unwrap(fps))))] >>
    /\ next_entity' = next_entity + 1
    /\ since_write' = Bump(since_write)
    /\ UNCHANGED writes
    /\ UNCHANGED <<timer_query, text_query, panicked, despawned>>

\* mutant of Arm2: the element is respawned without sampling the metric
Arm2_no_sample ==
    /\ next_entity <= MaxEntity
    /\ LET entity == next_entity
       IN  /\ commands' = << [op |-> "spawn_text", entity |-> entity,
                             sections |-> spawn_text_sections(None)] >>
           /\ timer_query' =
                [timer_query EXCEPT ![1].marker.text_entity = Some(entity)]
    /\ next_entity' = next_entity + 1
    /\ since_write' = Bump(since_write)
    /\ UNCHANGED writes
    /\ UNCHANGED <<text_query, panicked, despawned>>

\* None => marker.text_entity = Some(spawn_text(.., extract_fps(..).map(format_fps)))
Arm2 ==
    /\ next_entity <= MaxEntity
    /\ LET fps == extract_fps(diagnostics)
           entity == next_entity
       IN  /\ commands' = << [op |-> "spawn_text", entity |-> entity,
                             sections |-> spawn_text_sections(
                                IF fps = None THEN None
                                ELSE Some(format_fps(unwrap(fps))))] >>
           /\ timer_query' =
                [timer_query EXCEPT ![1].marker.text_entity = Some(entity)]
    /\ next_entity' = next_entity + 1
    /\ since_write' = Bump(since_write)
    /\ UNCHANGED writes
    /\ UNCHANGED <<text_query, panicked, despawned>>

\* mutant of Arm3: the reference is taken, despawn is not issued
Arm3_no_despawn ==
    /\ timer_query' = [timer_query EXCEPT ![1].marker.text_entity = None]
    /\ since_write' = Bump(since_write)
    /\ UNCHANGED writes
    /\ UNCHANGED <<text_query, commands, next_entity, panicked, despawned>>

\* mutant of Arm3: despawn is issued, the reference is not taken
Arm3_reference_kept ==
    /\ commands' = << [op |-> "despawn", entity |-> unwrap(marker.text_entity)] >>
    /\ despawned' = despawned \cup {unwrap(marker.text_entity)}
    /\ since_write' = Bump(since_write)
    /\ UNCHANGED writes
    /\ UNCHANGED <<timer_query, text_query, next_entity, panicked>>

\* Some(text_entity) if timer.paused() => despawn_recursive, text_entity.take()
Arm3 ==
    /\ commands' = << [op |-> "despawn", entity |-> unwrap(marker.text_entity)] >>
    /\ despawned' = despawned \cup {unwrap(marker.text_entity)}
    /\ timer_query' = [timer_query EXCEPT ![1].marker.text_entity = None]
    /\ since_write' = Bump(since_write)
    /\ UNCHANGED writes
    /\ UNCHANGED <<text_query, next_entity, panicked>>

\* Some(_) if !timer.tick(time.delta()).just_finished() => {}
\* (the guard has ticked the timer)
Arm4 ==
    /\ timer_query' = [timer_query EXCEPT ![1].timer = TimerTick(timer, time.delta)]
    /\ since_write' = Bump(since_write)
    /\ UNCHANGED writes
    /\ UNCHANGED <<text_query, commands, next_entity, panicked, despawned>>

\* mutant of WriteValue: the value is written into the label section
WriteValue_into_label(tq, fps) ==
    [e \in DOMAIN tq |-> [tq[e] EXCEPT !.sections[1] = format_fps(fps)]]

\* text_query.single_mut() followed by format_fps(&mut text.sections[1].value, fps)
WriteValue(tq, fps) ==
    [e \in DOMAIN tq |-> [tq[e] EXCEPT !.sections[2] = format_fps(fps)]]

\* mutant of Arm5: the timer is wound back only when a value was found
Arm5_reset_only_with_value ==
    /\ LET fps == extract_fps(diagnostics) IN
       IF fps = None
       THEN /\ since_write' = Bump(since_write)
            /\ UNCHANGED <<timer_query, text_query, panicked, writes>>
       ELSE IF Cardinality(Elements) # 1
       THEN /\ panicked' = TRUE
            /\ UNCHANGED <<timer_query, text_query, since_write, writes>>
       ELSE /\ timer_query' =
                 [timer_query EXCEPT ![1].timer = TimerTick(timer, time.delta)]
            /\ text_query' = WriteValue(text_query, unwrap(fps))
            /\ since_write' = 0
            /\ writes' = IF writes < 2 THEN writes + 1 ELSE writes
            /\ UNCHANGED panicked
    /\ UNCHANGED <<commands, next_entity, despawned>>

\* Some(_) => if let Some(fps) = extract_fps(..) { write the value text }
\* (the guard of the arm before has ticked the timer)
Arm5 ==
    /\ timer_query' = [timer_query EXCEPT ![1].timer = TimerTick(timer, time.delta)]
    /\ LET fps == extract_fps(diagnostics) IN
       IF fps = None
       THEN /\ since_write' = Bump(since_write)
            /\ UNCHANGED <<text_query, panicked, writes>>
       ELSE IF Cardinality(Elements) # 1
       THEN \* text_query.single_mut() panics
            /\ panicked' = TRUE
            /\ UNCHANGED <<text_query, since_write, writes>>
       ELSE /\ text_query' = WriteValue(text_query, unwrap(fps))
            /\ since_write' = 0
            /\ writes' = IF writes < 2 THEN writes + 1 ELSE writes
            /\ UNCHANGED panicked
    /\ UNCHANGED <<commands, next_entity, despawned>>

\* mutant of Update: without the singleton the tick silently does nothing
Update_silent_without_state ==
    /\ stage = "update"
    /\ ~panicked
    /\ stage' = "commands"
    /\ IF Len(timer_query) # 1
       THEN UNCHANGED <<timer_query, text_query, commands, next_entity, panicked,
                        transition, since_write, writes, despawned>>
       ELSE LET arm == match_arm(marker, timer, time.delta) IN
            /\ transition' = arm
            /\ CASE arm = 1 -> Arm1
                 [] arm = 2 -> Arm2
                 [] arm = 3 -> Arm3
                 [] arm = 4 -> Arm4
                 [] arm = 5 -> Arm5
    /\ UNCHANGED <<diagnostics, time>>

\* fn update
Update ==
    /\ stage = "update"
    /\ ~panicked
    /\ stage' = "commands"
    /\ IF Len(timer_query) # 1
       THEN \* timer_query.single_mut() panics
            /\ panicked' = TRUE
            /\ UNCHANGED <<timer_query, text_query, commands, next_entity,
                           transition, since_write, writes, despawned>>
       ELSE LET arm == match_arm(marker, timer, time.delta) IN
            /\ transition' = arm
            /\ CASE arm = 1 -> Arm1
                 [] arm = 2 -> Arm2
                 [] arm = 3 -> Arm3
                 [] arm = 4 -> Arm4
                 [] arm = 5 -> Arm5
    /\ UNCHANGED <<diagnostics, time>>

\* a collaborator pauses the Timer it finds through ScreenDiagsTimer; it runs
\* between two runs of update (where in the frame does not matter: the
\* commands of update do not touch the Timer)
Pause ==
    /\ stage = "update"
    /\ ~panicked
    /\ Len(timer_query) = 1
    /\ ~timer.paused
    /\ timer_query' = [timer_query EXCEPT ![1].timer.paused = TRUE]
    /\ UNCHANGED <<stage, text_query, commands, next_entity, diagnostics, time,
                   panicked, transition, since_write, writes, despawned>>

\* a collaborator unpauses the Timer
Unpause ==
    /\ stage = "update"
    /\ ~panicked
    /\ Len(timer_query) = 1
    /\ timer.paused
    /\ timer_query' = [timer_query EXCEPT ![1].timer.paused = FALSE]
    /\ UNCHANGED <<stage, text_query, commands, next_entity, diagnostics, time,
                   panicked, transition, since_write, writes, despawned>>

\* the frame time diagnostics change what Diagnostics holds for FPS; they run
\* per frame, never during startup
SetDiagnostics(d) ==
    /\ stage = "update"
    /\ ~panicked
    /\ d # diagnostics
    /\ diagnostics' = d
    /\ UNCHANGED <<stage, timer_query, text_query, commands, next_entity, time,
                   panicked, transition, since_write, writes, despawned>>

Frame == \E delta \in Deltas : ApplyCommands(delta)

Measure == \E d \in DiagnosticStates : SetDiagnostics(d)

Next ==
    \/ Setup
    \/ Frame
    \/ Update
    \/ Pause
    \/ Unpause
    \/ Measure

Spec == Init /\ [][Next]_vars

\* every frame delivers a delta of 100 ms
Frame100ms == ApplyCommands(1)

Next100ms ==
    \/ Setup
    \/ Frame100ms
    \/ Update
    \/ Pause
    \/ Unpause
    \/ Measure

Spec100ms == Init /\ [][Next100ms]_vars

-----------------------------------------------------------------------------
(* Misuse of the plugin by the host: the singleton state goes missing or is *)
(* duplicated.                                                              *)

\* a collaborator despawns the entity that carries (ScreenDiagsTimer, Timer),
\* which it can find through the public marker component
DespawnState ==
    /\ stage = "update"
    /\ ~panicked
    /\ Len(timer_query) = 1
    /\ timer_query' = << >>
    /\ UNCHANGED <<stage, text_query, commands, next_entity, diagnostics, time,
                   panicked, transition, since_write, writes, despawned>>

\* the plugin was added twice: setup runs a second time in the startup stage
SetupAgain ==
    /\ stage = "commands"
    /\ ~panicked
    /\ timer_query = << >>
    /\ Len(commands) = 2
    /\ LET entity == next_entity IN
       commands' = commands \o
                   << [op |-> "spawn_text", entity |-> entity,
                       sections |-> spawn_text_sections(None)],
                      [op |-> "spawn_timer", entity |-> entity + 1,
                       marker |-> [text_entity |-> Some(entity)],
                       timer |-> TimerNew] >>
    /\ next_entity' = next_entity + 2
    /\ UNCHANGED <<stage, timer_query, text_query, diagnostics, time, panicked,
                   transition, since_write, writes, despawned>>

NextMisuse ==
    \/ Setup
    \/ SetupAgain
    \/ Frame100ms
    \/ Update
    \/ Pause
    \/ Unpause
    \/ Measure
    \/ DespawnState

SpecMisuse == Init /\ [][NextMisuse]_vars

-----------------------------------------------------------------------------
(* Formatting, over a range of averages: the diagnostics hold an average   *)
(* drawn from the range, and every frame lasts one interval, so every tick *)
(* refreshes the value text with the formatted average.                    *)

InitFormat ==
    /\ stage = "startup"
    /\ timer_query = << >>
    /\ text_query = << >>
    /\ commands = << >>
    /\ next_entity = 1
    /\ diagnostics \in {Some([average |-> Some(v)]) : v \in 0..MaxFpsTenths}
    /\ time = [delta |-> 0]
    /\ panicked = FALSE
    /\ transition = 0
    /\ since_write = WindowTicks
    /\ writes = 0
    /\ despawned = {}

FrameInterval == ApplyCommands(UPDATE_INTERVAL)

NextFormat ==
    \/ Setup
    \/ FrameInterval
    \/ Update

SpecFormat == InitFormat /\ [][NextFormat]_vars

-----------------------------------------------------------------------------
(* The running app: add_startup_system(setup) and add_system(update) make  *)
(* the host run setup once and update in every frame, and frames keep      *)
(* coming, each with a delta of 100 ms.  A collaborator pauses only while  *)
(* a handle is left for the respawn that its unpause will ask for.         *)

PauseWhileHandlesLeft ==
    /\ next_entity <= MaxEntity
    /\ Pause

NextLive ==
    \/ Setup
    \/ Frame100ms
    \/ Update
    \/ PauseWhileHandlesLeft
    \/ Unpause
    \/ Measure

SpecLive ==
    /\ Init
    /\ [][NextLive]_vars
    /\ WF_vars(Setup)
    /\ WF_vars(Frame100ms)
    /\ WF_vars(Update)

-----------------------------------------------------------------------------
(* Vocabulary of the properties *)

\* OverlayState.displayRef
displayRef == marker.text_entity

\* a step that is one run of update
TickStep == stage = "update" /\ stage' = "commands"

\* the state right after a run of update, its commands not yet applied
AfterTick == stage = "commands" /\ transition # 0

\* the state between two frames: the commands of the last system are applied
TickBoundary == stage = "update"

\* the metric source has a value: the FPS diagnostic exists and has an average
MetricAvailable(d) == d # None /\ unwrap(d).average # None
MetricValue(d) == unwrap(unwrap(d).average)

\* the value text of element e
ValueText(tq, e) == tq[e].sections[2]
LabelText(tq, e) == tq[e].sections[1]

\* the commands of a kind in a queue
Issued(cs, op) == {cs[i] : i \in {j \in DOMAIN cs : cs[j].op = op}}

\* the interval has elapsed with the delta of this frame
IntervalElapsed == timer.elapsed + time.delta >= UPDATE_INTERVAL

\* the preconditions of the five rows of the decision table
Row(r) ==
    CASE r = 1 -> displayRef = None /\ timer.paused
      [] r = 2 -> displayRef = None /\ ~timer.paused
      [] r = 3 -> displayRef # None /\ timer.paused
      [] r = 4 -> displayRef # None /\ ~timer.paused /\ ~IntervalElapsed
      [] r = 5 -> displayRef # None /\ ~timer.paused /\ IntervalElapsed

\* the actions of the five rows, as a relation between the states before and
\* after the tick
RowAction(r) ==
    CASE r = 1 -> UNCHANGED <<timer_query, text_query, commands, next_entity>>
      [] r = 2 -> /\ \E e \in 1..MaxEntity :
                       /\ e \notin Elements
                       /\ Len(commands') = 1
                       /\ commands'[1].op = "spawn_text"
                       /\ commands'[1].entity = e
                       /\ displayRef' = Some(e)
                  /\ timer' = timer
                  /\ UNCHANGED text_query
      [] r = 3 -> /\ commands' = << [op |-> "despawn", entity |-> unwrap(displayRef)] >>
                  /\ displayRef' = None
                  /\ timer' = timer
                  /\ UNCHANGED text_query
      [] r = 4 -> /\ timer'.elapsed = timer.elapsed + time.delta
                  /\ timer'.paused = timer.paused
                  /\ displayRef' = displayRef
                  /\ UNCHANGED <<text_query, commands>>
      [] r = 5 -> /\ just_finished(timer')
                  /\ displayRef' = displayRef
                  /\ DOMAIN text_query' = DOMAIN text_query
                  /\ text_query' # text_query => extract_fps(diagnostics) # None
                  /\ UNCHANGED commands

-----------------------------------------------------------------------------
(* C1: at every tick boundary (the deferred commands applied), text_entity  *)
(* is None exactly when no display text element exists, and when it is     *)
(* Some(e), e is a live element.                                           *)
C1_RefIffElement ==
    TickBoundary /\ Len(timer_query) = 1 =>
        /\ displayRef = None <=> Elements = {}
        /\ displayRef # None => unwrap(displayRef) \in Elements

\* a respawned element is referenced and live at a tick boundary
C1_Witness ==
    /\ TickBoundary
    /\ transition = 2
    /\ displayRef # None
    /\ unwrap(displayRef) \in Elements
    /\ despawned # {}

(* C2: right after each run of update, text_entity is None exactly when    *)
(* the timer was paused at that tick.                                      *)
C2_RefMatchesPause ==
    AfterTick => (displayRef = None <=> timer.paused)

\* a tick has observed the pause and cleared the reference
C2_Witness ==
    /\ AfterTick
    /\ transition = 3
    /\ timer.paused
    /\ displayRef = None

(* C3: a tick that finds an element and the timer unpaused (arm 4 or 5)    *)
(* spawns nothing, and at most one display text element exists at any     *)
(* time.                                                                   *)
C3_NoRespawn ==
    /\ Cardinality(Elements) <= 1
    /\ AfterTick /\ transition \in {4, 5} => Issued(commands, "spawn_text") = {}

\* a refresh tick on an element that was respawned before
C3_Witness ==
    /\ AfterTick
    /\ transition = 5
    /\ Cardinality(Elements) = 1
    /\ despawned # {}

(* C4: each run of update takes exactly one of the five transitions: the   *)
(* preconditions of the rows are mutually exclusive and exhaustive, and    *)
(* the arm taken and its effect are those of the one row that holds.       *)
C4_OneTransition ==
    [][TickStep /\ Len(timer_query) = 1 =>
          /\ Cardinality({r \in 1..5 : Row(r)}) = 1
          /\ \A r \in 1..5 : Row(r) => transition' = r /\ RowAction(r)]_vars

\* all five rows have been taken: a refresh after a despawn and a respawn
C4_Witness ==
    /\ AfterTick
    /\ transition = 5
    /\ despawned # {}
    /\ timer.times_finished = 2

(* C5: with ticks of 100 ms and an interval of 1 s, the value text is      *)
(* overwritten on at most one tick in any 10 consecutive ticks: a tick     *)
(* that overwrites it follows the previous such tick by at least 10 ticks, *)
(* whatever the metric source yields and whatever toggles happen.          *)
C5_Throttled ==
    [][TickStep /\ since_write' = 0 => since_write >= WindowTicks - 1]_vars

\* the value text has just been overwritten a second time
C5_Witness ==
    /\ AfterTick
    /\ transition = 5
    /\ since_write = 0
    /\ writes = 2
    /\ \E e \in Elements : ValueText(text_query, e) = "63"

\* the value text spawn_text gives for what extract_fps yields of d
SampledText(d) ==
    IF extract_fps(d) = None THEN "..." ELSE format_fps(unwrap(extract_fps(d)))

(* C6: when the refresh fires (arm 5) at a tick where the metric source    *)
(* has no value (no diagnostic, or no measurement to average), the value   *)
(* text after the tick is the value text before the tick.                  *)
C6_GapKeepsText ==
    [][TickStep /\ transition' = 5 /\ ~MetricAvailable(diagnostics)
          => text_query' = text_query]_vars

(* C7: every element is spawned with value text "..." when the metric      *)
(* source has no value, and with the formatted value when it has one; for  *)
(* the spawn of setup and the spawn of arm 2.                              *)
C7_SpawnText ==
    \A c \in Issued(commands, "spawn_text") :
        c.sections[2] = IF MetricAvailable(diagnostics)
                        THEN format_fps(MetricValue(diagnostics))
                        ELSE "..."

(* C8 as stated: after a pause and an unpause each observed by a tick, the *)
(* element is a freshly spawned one, with a handle that was not despawned, *)
(* and its value text is the placeholder "...".                            *)
C8_RespawnPlaceholder ==
    [][stage = "commands" /\ transition = 2 /\ stage' = "update" =>
          /\ displayRef # None
          /\ unwrap(displayRef) \notin despawned
          /\ Elements' = {unwrap(displayRef)}
          /\ ValueText(text_query', unwrap(displayRef)) = "..."]_vars

(* C8 amended: after a pause and an unpause each observed by a tick, the   *)
(* element is a freshly spawned one, with a handle that was not despawned, *)
(* and its value text is what the respawn tick sampled: the formatted      *)
(* value extract_fps yielded, the placeholder "..." only if it yielded     *)
(* none; whatever the despawned element displayed.                         *)
C8_RespawnSampled ==
    [][stage = "commands" /\ transition = 2 /\ stage' = "update" =>
          /\ displayRef # None
          /\ unwrap(displayRef) \notin despawned
          /\ Elements' = {unwrap(displayRef)}
          /\ ValueText(text_query', unwrap(displayRef)) = SampledText(diagnostics)]_vars

\* a respawned element shows the value sampled at the respawn tick
C8_Witness ==
    /\ TickBoundary
    /\ transition = 2
    /\ despawned # {}
    /\ displayRef # None
    /\ unwrap(displayRef) \in Elements
    /\ ValueText(text_query, unwrap(displayRef)) = "60"

(* C9: despawn is issued at most once per element: a tick issues despawn   *)
(* only for a live element that no despawn was issued for, clears          *)
(* text_entity in the same tick, and no tick issues any command for a      *)
(* handle that a despawn was issued for.                                   *)
C9_DespawnOnce ==
    [][TickStep =>
          \A i \in DOMAIN commands' :
              /\ commands'[i].entity \notin despawned
              /\ commands'[i].op = "despawn" =>
                    /\ commands'[i].entity \in Elements
                    /\ displayRef = Some(commands'[i].entity)
                    /\ displayRef' = None]_vars

\* the second element has been despawned as well
C9_Witness ==
    /\ AfterTick
    /\ transition = 3
    /\ Cardinality(despawned) >= 2
    /\ Issued(commands, "despawn") # {}

(* C10: the commands of setup applied, text_entity is Some(e), the timer   *)
(* is unpaused with nothing elapsed and e shows "..."; and the value text  *)
(* of an element showing "..." changes only by despawn or by a refresh     *)
(* (arm 5) that found a value.                                             *)
C10_Bootstrap ==
    [][/\ timer_query = << >> /\ timer_query' # << >> =>
            /\ Len(timer_query') = 1
            /\ displayRef' # None
            /\ Elements' = {unwrap(displayRef')}
            /\ ValueText(text_query', unwrap(displayRef')) = "..."
            /\ LabelText(text_query', unwrap(displayRef')) = "FPS: "
            /\ ~timer'.paused
            /\ timer'.elapsed = 0
            /\ despawned' = {}
       /\ \A e \in Elements \cap Elements' :
            ValueText(text_query, e) = "..." /\ ValueText(text_query', e) # "..." =>
                /\ TickStep
                /\ transition' = 5
                /\ extract_fps(diagnostics) # None]_vars

\* the first element still shows "..." after a refresh that found no value
C10_Witness ==
    /\ AfterTick
    /\ transition = 5
    /\ despawned = {}
    /\ extract_fps(diagnostics) = None
    /\ \E e \in Elements : ValueText(text_query, e) = "..."

(* C11: when the (ScreenDiagsTimer, Timer) singleton is absent or          *)
(* duplicated as update runs, the run ends in a panic and performs no      *)
(* transition: no arm is taken, no command is issued, nothing is changed.  *)
C11_FatalWithoutState ==
    [][TickStep /\ Len(timer_query) # 1 =>
          /\ panicked'
          /\ UNCHANGED <<timer_query, text_query, commands, next_entity,
                         transition, despawned>>]_vars

\* update has panicked on a world whose state entity was despawned while the
\* element was showing
C11_Witness ==
    /\ panicked
    /\ timer_query = << >>
    /\ Elements # {}
    /\ transition # 0

\* update has panicked on a duplicated state
C11_WitnessDuplicated ==
    /\ panicked
    /\ Len(timer_query) = 2

\* the integers a value of t tenths lies no further than one half from
Nearest(t) == {n \in 0..(MaxFpsTenths \div 10 + 1) : 10 * n - t \in -5..5}

\* t tenths lies exactly halfway between two integers
Halfway(t) == t % 10 = 5

\* the value text that a refresh has just written, with the average it read
Refreshed(e) ==
    /\ AfterTick
    /\ transition = 5
    /\ MetricAvailable(diagnostics)
    /\ e \in Elements

(* C12: format_fps renders the decimal numeral of a nearest integer: the   *)
(* text written is the numeral of an integer no further than one half from *)
(* the value (62.7 gives "63", 59.6 gives "60"), a value exactly halfway   *)
(* between two integers included, for which both neighbours are nearest    *)
(* (the code prints the even one: 62.5 gives "62", 63.5 gives "64").       *)
C12_NearestInteger ==
    \A e \in Elements : Refreshed(e) =>
        LET t == MetricValue(diagnostics)
            text == ValueText(text_query, e)
        IN  /\ \E n \in Nearest(t) : text = Decimal(n)
            /\ t = 627 => text = "63"
            /\ t = 596 => text = "60"

\* a value halfway between two integers has been rendered as one of the two
C12_Witness ==
    \E e \in Elements :
        /\ Refreshed(e)
        /\ Halfway(MetricValue(diagnostics))
        /\ MetricValue(diagnostics) = 625
        /\ ValueText(text_query, e) = "62"

(* C13: a tick on which the interval has elapsed (arm 5) winds the         *)
(* elapsed time back below UPDATE_INTERVAL whether or not a value was      *)
(* found; a refresh fires only when the elapsed time plus the frame delta  *)
(* reaches UPDATE_INTERVAL again, so the tick after a refresh does not     *)
(* refresh unless its frame completes another interval.                    *)
C13_ResetRegardless ==
    [][TickStep /\ Len(timer_query) = 1 =>
          /\ transition' = 5 =>
                /\ timer.elapsed + time.delta >= UPDATE_INTERVAL
                /\ timer'.elapsed = (timer.elapsed + time.delta) % UPDATE_INTERVAL
                /\ timer'.elapsed < UPDATE_INTERVAL
          /\ transition = 5 /\ timer.elapsed + time.delta < UPDATE_INTERVAL
                => transition' # 5]_vars

\* a refresh found no value: the text is left, the timer is wound back
C13_Witness ==
    /\ AfterTick
    /\ transition = 5
    /\ writes = 0
    /\ extract_fps(diagnostics) = None
    /\ just_finished(timer)
    /\ timer.elapsed = 2
    /\ \E e \in Elements : ValueText(text_query, e) = "..."

(* C14: arm 1 (no element, paused) changes nothing at all; arm 4 (element, *)
(* unpaused, interval not elapsed) changes only the timer's elapsed time,  *)
(* leaving text_entity, the live elements and their text unchanged and     *)
(* issuing no command; and the label of every element is "FPS: " after     *)
(* every step.                                                             *)
C14_FrameConditions ==
    [][/\ TickStep /\ transition' = 1 =>
            UNCHANGED <<timer_query, text_query, commands, next_entity,
                        diagnostics, time>>
       /\ TickStep /\ transition' = 4 =>
            /\ timer'.elapsed = timer.elapsed + time.delta
            /\ timer'.paused = timer.paused
            /\ displayRef' = displayRef
            /\ UNCHANGED <<text_query, commands, next_entity, diagnostics, time>>
       /\ \A e \in DOMAIN text_query' : LabelText(text_query', e) = "FPS: "
       /\ \A c \in Issued(commands', "spawn_text") : c.sections[1] = "FPS: "]_vars

\* the timer has advanced on an element whose value text was overwritten
C14_Witness ==
    /\ AfterTick
    /\ transition = 4
    /\ timer.elapsed = 4
    /\ writes = 1
    /\ \E e \in Elements : /\ ValueText(text_query, e) = "60"
                           /\ LabelText(text_query, e) = "FPS: "

(* C15: whenever arm 5 writes the value text, exactly one element tagged   *)
(* ScreenDiagsText exists and it is the one text_entity refers to, so      *)
(* text_query.single_mut() does not panic and the write lands on that      *)
(* element.                                                                *)
C15_WriteHitsReferenced ==
    [][TickStep /\ Len(timer_query) = 1 /\ transition' = 5
            /\ extract_fps(diagnostics) # None =>
          /\ displayRef # None
          /\ Elements = {unwrap(displayRef)}
          /\ ~panicked'
          /\ DOMAIN text_query' = Elements
          /\ ValueText(text_query', unwrap(displayRef))
                = format_fps(unwrap(extract_fps(diagnostics)))]_vars

\* the value text of a respawned element has been overwritten
C15_Witness ==
    /\ AfterTick
    /\ transition = 5
    /\ since_write = 0
    /\ Cardinality(despawned) = 2
    /\ displayRef # None
    /\ unwrap(displayRef) \notin despawned
    /\ ValueText(text_query, unwrap(displayRef)) = "63"

\* a step in which a collaborator toggles the pause flag
ToggleStep ==
    /\ stage = "update" /\ stage' = "update"
    /\ Len(timer_query) = 1 /\ Len(timer_query') = 1
    /\ timer'.paused # timer.paused

(* C16: the elapsed time is carried across a hidden period: the despawn    *)
(* tick (arm 3), the ticks while hidden (arm 1), the respawn tick (arm 2)  *)
(* and the toggles leave it unchanged, so the first tick after a respawn   *)
(* refreshes exactly when the carried time plus its frame delta reaches    *)
(* UPDATE_INTERVAL, which can be less than an interval after the respawn.  *)
C16_ElapsedCarried ==
    [][/\ TickStep /\ transition' \in {1, 2, 3} => timer' = timer
       /\ ToggleStep => timer'.elapsed = timer.elapsed
       /\ TickStep /\ transition = 2 /\ ~timer.paused =>
             (transition' = 5 <=> timer.elapsed + time.delta >= UPDATE_INTERVAL)]_vars

\* an element was just respawned with 900 ms carried over from before the
\* pause; the frame of 100 ms that follows makes the refresh due
C16_Witness ==
    /\ TickBoundary
    /\ transition = 2
    /\ despawned # {}
    /\ displayRef # None
    /\ ~timer.paused
    /\ timer.elapsed = 9
    /\ time.delta = 1

(* C17: a pause that is set and cleared between two consecutive ticks has  *)
(* no effect: setting it while the element exists, and clearing it before  *)
(* a tick has observed it (the element still exists), each change the      *)
(* pause flag alone, so the state is the one before the pause; and the     *)
(* tick that follows takes arm 4 or 5, issuing no despawn and no spawn.    *)
C17_UnobservedPause ==
    [][/\ ToggleStep /\ displayRef # None =>
            /\ timer' = [timer EXCEPT !.paused = ~timer.paused]
            /\ marker' = marker
            /\ UNCHANGED <<text_query, commands, next_entity, diagnostics,
                           time, transition>>
       /\ TickStep /\ Len(timer_query) = 1 /\ displayRef # None /\ ~timer.paused =>
            /\ transition' \in {4, 5}
            /\ commands' = << >>
            /\ displayRef' = displayRef
            /\ DOMAIN text_query' = DOMAIN text_query]_vars

\* the pause is set and no tick has observed it: the element still exists
C17_Witness ==
    /\ TickBoundary
    /\ Len(timer_query) = 1
    /\ timer.paused
    /\ displayRef # None
    /\ unwrap(displayRef) \in Elements
    /\ timer.elapsed = 4
    /\ writes = 1

\* the timer exists and is paused / unpaused
TimerPaused == Len(timer_query) = 1 /\ timer.paused
TimerUnpaused == Len(timer_query) = 1 /\ ~timer.paused

\* a refresh (arm 5) has just run
RefreshFired == stage = "commands" /\ transition = 5

(* C18: if from some point on the timer stays unpaused (frames of positive *)
(* delta keep coming), then from some tick boundary on the referenced      *)
(* element exists at every tick boundary, and the refresh (arm 5) fires    *)
(* again and again; if from some point on the timer stays paused, then     *)
(* from some point on no element exists and no refresh fires.              *)
C18_Liveness ==
    /\ <>[]TimerUnpaused =>
          /\ <>[](TickBoundary =>
                    displayRef # None /\ Elements = {unwrap(displayRef)})
          /\ []<>RefreshFired
    /\ <>[]TimerPaused =>
          <>[](TimerPaused /\ displayRef = None /\ Elements = {} /\ ~RefreshFired)

\* a refresh has fired again on a respawned element
C18_Witness ==
    /\ RefreshFired
    /\ writes = 2
    /\ since_write = 0
    /\ despawned # {}
    /\ ~timer.paused

====
